---- MODULE Spec2Model ----
(***************************************************************************)
(* A model of the sample scripts of app/utils/sample:                      *)
(*   decorators.py       timed, retry and the flaky demo that stacks them  *)
(*   context_manager.py  Timer, open_read                                  *)
(*   files.py            safe_open_read                                    *)
(*   fastapi.py          the item, error_demo handlers of the demo app     *)
(* Spec is the script side: one call of one sample at a time.              *)
(* SpecApp / SpecAppSeq are the web app: requests handled by worker        *)
(* threads, concurrently or one after the other.                           *)
(***************************************************************************)
EXTENDS Integers, Sequences, FiniteSets, TLC

\* ------------------------------------------------------------------ bounds
\* Largest `times` a retry decorator is built with.
MaxTimes == 3

\* `times` is an int: zero and a negative value are accepted by retry().
TimesValues == (0 - 1)..MaxTimes
\* `delay`, in clock ticks.
Delays == {1, 2}
\* Arguments the decorated function is called with.
Args == {5}

\* ------------------------------------------------------- values, exceptions
\* Python's None, as a value of the same shape as an exception object.
None == [cls |-> "NoneType", by |-> 0]

\* Exception classes the wrapped function may raise. KeyboardInterrupt derives
\* from BaseException only, the others from Exception.
FuncExcClasses == {"RuntimeError", "ValueError", "KeyboardInterrupt"}

\* isinstance(e, Exception): what `except Exception` catches.
IsException(cls) ==
    cls \notin {"KeyboardInterrupt", "SystemExit", "GeneratorExit", "CancelledError"}

\* An exception object: its class and the call (attempt number) that created it,
\* which tells two objects of one class apart. by = 0: raised by a wrapper itself.
Exc(cls, by) == [cls |-> cls, by |-> by]

\* Python values of the kinds the samples return: None, an int, a str.
NoneVal == [t |-> "NoneType", i |-> 0, s |-> ""]
IntVal(i) == [t |-> "int", i |-> i, s |-> ""]
StrVal(s) == [t |-> "str", i |-> 0, s |-> s]

\* How a call ends: still running, a returned value, or a raised exception.
Running == [kind |-> "running", val |-> NoneVal, exc |-> None]
Returned(v) == [kind |-> "return", val |-> v, exc |-> None]
Raised(e) == [kind |-> "raise", val |-> NoneVal, exc |-> e]

\* Paths the file samples are called with.
Paths == {"cm_demo.txt", "no_such_file.txt"}
\* Texts a readable file may hold.
Texts == {"", "demo\n"}
\* What is at a path: nothing; a readable text file; a file the process may not
\* read; a directory; a file whose bytes are not UTF-8; a path below a regular
\* file.
FileStates ==
    {[state |-> st, text |-> ""] :
        st \in {"missing", "denied", "isdir", "undecodable", "notdir"}}
    \cup {[state |-> "ok", text |-> x] : x \in Texts}

VARIABLES
    pc,         \* position of the script: "idle", a step of a sample, "done"
    op,         \* the sample that runs: "flaky", "timer", "open_read", ...
    fs,         \* the file system: what is at each path
    path,       \* the path the file sample was called with
    handle,     \* open_read: f, "none" / "open" / "closed"
    closes,     \* open_read: how many times f.close() ran
    start,      \* Timer.start
    body,       \* how the body of the with statement ended
    times,      \* retry: the decorator's times
    delay,      \* retry: the decorator's delay
    arg,        \* the argument of the call of the decorated function
    attempt,    \* retry.wrapper: the loop variable
    last_exc,   \* retry.wrapper: last_exc
    retry_out,  \* how the call of retry's wrapper ended
    t0,         \* timed.wrapper: t0
    now,        \* the clock time.perf_counter reads; time.sleep advances it
    trace,      \* what happened, in order: calls of func, sleeps, printed lines
    out,        \* how the outermost call ended
    DB,         \* fastapi.py: IN_MEMORY_DB, item id -> Item
    tpc,        \* per worker thread: the position in the handler it runs
    req,        \* per worker thread: the request it handles
    new_id,     \* per worker thread: create_item's new_id
    db0,        \* per worker thread: IN_MEMORY_DB as it was when the request came in
    resp,       \* per worker thread: the response it produced
    p_pc,       \* data_types.py / builtin_stats: position of the call
    nums,       \* first_even: the iterable, as a sequence
    idx,        \* first_even: how many elements the for loop has taken
    p_out,      \* how the call of the pure function ended
    values,     \* builtin_stats: the query parameter, a sequence of characters
    cache,      \* simple_cache: the dict `cache`, key -> stored value
    c_pc,       \* simple_cache: position of the call of the wrapper
    c_call,     \* simple_cache: the call, its args and its kwargs as written
    c_before,   \* simple_cache: `cache` as it was when the call came in
    c_ran,      \* simple_cache: whether this call executed func
    c_out,      \* simple_cache: how the call of the wrapper ended
    c_execs,    \* per argument set: executions of func that returned
    c_first,    \* per argument set: the value the first such execution returned
    c_n,        \* simple_cache: number of calls made
    ws_pc,      \* ws_echo: position of the coroutine
    ws_data,    \* ws_echo: data
    ws_recv,    \* the text messages receive_text returned, in order
    ws_sent,    \* the messages send_text sent, in order
    ws_closes,  \* how many times ws.close() was called
    ws_exc,     \* the exception that ended the loop, None while there is none
    st_pc,      \* number_stream: position of the generator
    st_i,       \* number_stream: i
    st_sleeps,  \* number_stream: asyncio.sleep calls that completed
    st_chunks   \* number_stream: the chunks yielded, in order

retryVars == <<times, delay, arg, attempt, last_exc, retry_out, t0>>
cmVars == <<fs, path, handle, closes, start, body>>
scriptVars == <<pc, op, retryVars, cmVars, now, trace, out>>
appVars == <<DB, tpc, req, new_id, db0, resp>>
pureVars == <<p_pc, nums, idx, p_out, values>>
cacheVars == <<cache, c_pc, c_call, c_before, c_ran, c_out, c_execs, c_first, c_n>>
wsVars == <<ws_pc, ws_data, ws_recv, ws_sent, ws_closes, ws_exc>>
streamVars == <<st_pc, st_i, st_sleeps, st_chunks>>
asyncVars == <<wsVars, streamVars>>
extVars == <<pureVars, cacheVars, asyncVars>>
vars == <<scriptVars, appVars, extVars>>

\* ------------------------------------------------------------ decorators.py
\* flaky's body when it does not fail: return n * 2.
flaky_value(n) == IntVal(n * 2)

\* What one call of the wrapped function can do: return its value, or raise a
\* fresh exception object of any class.
FuncOutcomes(n, k) ==
    {Returned(flaky_value(n))} \cup {Raised(Exc(c, k)) : c \in FuncExcClasses}

\* A loop that stops one attempt short.
RangeHasNext_short(a, t) == a + 1 < t

\* `for attempt in range(1, times + 1)`: is there a next value after `a`?
RangeHasNext(a, t) == a + 1 <= t

\* A handler that retries one class of failure only.
RetryCatches_runtime_only(e) == e.cls = "RuntimeError"

\* `except Exception as e`: does the handler catch what the call raised?
RetryCatches(e) == IsException(e.cls)

\* `raise last_exc`: raising None is a TypeError made by the raise statement.
RaiseLastExc(le) ==
    IF le = None THEN Raised(Exc("TypeError", 0)) ELSE Raised(le)

CallEv(k, r) == [ev |-> "call", n |-> k, res |-> r, d |-> 0]
SleepEv(d) == [ev |-> "sleep", n |-> 0, res |-> Running, d |-> d]
PrintEv(what, k, r, d) == [ev |-> what, n |-> k, res |-> r, d |-> d]

\* flaky(n) is called: timed.wrapper reads the clock, retry.wrapper clears
\* last_exc and starts its loop.
call_flaky ==
    /\ pc = "idle"
    /\ \E t \in TimesValues, d \in Delays, n \in Args :
          /\ times' = t
          /\ delay' = d
          /\ arg' = n
    /\ t0' = now
    /\ last_exc' = None
    /\ attempt' = 0
    /\ pc' = "retry_for"
    /\ op' = "flaky"
    /\ UNCHANGED <<retry_out, now, trace, out, cmVars>>
    /\ UNCHANGED appVars
    /\ UNCHANGED extVars

\* The for statement takes the next attempt number, or the loop is exhausted.
retry_for ==
    /\ pc = "retry_for"
    /\ IF RangeHasNext(attempt, times)
          THEN /\ attempt' = attempt + 1
               /\ pc' = "retry_try"
          ELSE /\ attempt' = attempt
               /\ pc' = "retry_raise"
    /\ UNCHANGED <<op, times, delay, arg, last_exc, retry_out, t0, now, trace, out, cmVars>>
    /\ UNCHANGED appVars
    /\ UNCHANGED extVars

\* try: return func(*args, **kwargs) / except Exception as e: last_exc = e; print
retry_try ==
    /\ pc = "retry_try"
    /\ \E r \in FuncOutcomes(arg, attempt) :
          IF r.kind = "raise" /\ RetryCatches(r.exc)
             THEN /\ last_exc' = r.exc
                  /\ trace' = trace \o <<CallEv(attempt, r),
                                         PrintEv("attempt_failed", attempt, r, times)>>
                  /\ retry_out' = retry_out
                  /\ pc' = "retry_sleep"
             ELSE /\ last_exc' = last_exc
                  /\ trace' = Append(trace, CallEv(attempt, r))
                  /\ retry_out' = r
                  /\ pc' = "timed_finally"
    /\ UNCHANGED <<op, times, delay, arg, attempt, t0, now, out, cmVars>>
    /\ UNCHANGED appVars
    /\ UNCHANGED extVars

\* time.sleep(delay), the last statement of the except block.
retry_sleep ==
    /\ pc = "retry_sleep"
    /\ now' = now + delay
    /\ trace' = Append(trace, SleepEv(delay))
    /\ pc' = "retry_for"
    /\ UNCHANGED <<op, times, delay, arg, attempt, last_exc, retry_out, t0, out, cmVars>>
    /\ UNCHANGED appVars
    /\ UNCHANGED extVars

\* After the loop: raise last_exc.
retry_raise ==
    /\ pc = "retry_raise"
    /\ retry_out' = RaiseLastExc(last_exc)
    /\ pc' = "timed_finally"
    /\ UNCHANGED <<op, times, delay, arg, attempt, last_exc, t0, now, trace, out, cmVars>>
    /\ UNCHANGED appVars
    /\ UNCHANGED extVars

\* What timed.wrapper hands to its caller: the wrapped call's own outcome, after
\* the finally block.
TimedOutcome(inner) == inner

\* timed.wrapper's finally block: dt = perf_counter() - t0; print; then the
\* return value or the exception goes on to the caller.
timed_finally ==
    /\ pc = "timed_finally"
    /\ trace' = Append(trace, PrintEv("took", 0, Running, now - t0))
    /\ out' = TimedOutcome(retry_out)
    /\ pc' = "done"
    /\ UNCHANGED <<op, retryVars, now, cmVars>>
    /\ UNCHANGED appVars
    /\ UNCHANGED extVars


\* ------------------------------------------------------- context_manager.py
\* The with statement: after __exit__, an exception raised by the body goes on
\* to the caller unless __exit__ returned a true value; otherwise the statement
\* ends normally.
WithOutcome(b, suppress) ==
    IF b.kind = "raise" /\ ~suppress THEN b ELSE Returned(NoneVal)

\* What the body of a with statement can do: finish, or raise a fresh exception.
BodyOutcomes == {Returned(NoneVal)} \cup {Raised(Exc(c, 1)) : c \in FuncExcClasses}

\* An __exit__ that swallows what the body raised.
Timer_exit_returns_true == TRUE

\* Timer.__exit__'s return value: `return False`.
Timer_exit_returns == FALSE

\* `self.start or 0.0`
StartOrZero(v) == IF v.t = "int" /\ v.i # 0 THEN v.i ELSE 0

\* Timer(label): __init__ sets start to None.
Timer_init ==
    /\ pc = "idle"
    /\ op' = "timer"
    /\ start' = NoneVal
    /\ pc' = "timer_enter"
    /\ UNCHANGED <<retryVars, fs, path, handle, closes, body, now, trace, out>>
    /\ UNCHANGED appVars
    /\ UNCHANGED extVars

\* Timer.__enter__: start = perf_counter(); print "<label> started".
Timer_enter ==
    /\ pc = "timer_enter"
    /\ start' = IntVal(now)
    /\ trace' = Append(trace, PrintEv("started", 0, Running, 0))
    /\ pc' = "timer_body"
    /\ UNCHANGED <<op, retryVars, fs, path, handle, closes, body, now, out>>
    /\ UNCHANGED appVars
    /\ UNCHANGED extVars

\* The body of `with Timer(...)`: it takes some time (the demo sleeps), then
\* finishes or raises.
Timer_body ==
    /\ pc = "timer_body"
    /\ \E d \in Delays : now' = now + d
    /\ \E b \in BodyOutcomes : body' = b
    /\ pc' = "timer_exit"
    /\ UNCHANGED <<op, retryVars, fs, path, handle, closes, start, trace, out>>
    /\ UNCHANGED appVars
    /\ UNCHANGED extVars

\* Timer.__exit__: print "<label> ended: <elapsed>s", return False; then the with
\* statement ends.
Timer_exit ==
    /\ pc = "timer_exit"
    /\ trace' = Append(trace, PrintEv("ended", 0, Running, now - StartOrZero(start)))
    /\ out' = WithOutcome(body, Timer_exit_returns)
    /\ pc' = "done"
    /\ UNCHANGED <<op, retryVars, fs, path, handle, closes, start, body, now>>
    /\ UNCHANGED appVars
    /\ UNCHANGED extVars

\* open(path, mode): the exception it raises for what is at the path, or None
\* when it returns a file object (mode "w" creates a missing file instead).
OpenError(file) ==
    CASE file.state = "missing" -> Exc("FileNotFoundError", 0)
      [] file.state = "denied" -> Exc("PermissionError", 0)
      [] file.state = "isdir" -> Exc("IsADirectoryError", 0)
      [] file.state = "notdir" -> Exc("NotADirectoryError", 0)
      [] OTHER -> None

\* f.read() on an open text file: its text, or a decoding error.
ReadFile(file) ==
    IF file.state = "undecodable"
       THEN Raised(Exc("UnicodeDecodeError", 0))
       ELSE Returned(StrVal(file.text))

\* demo(): `with open(p, "w") as f: f.write("demo\n")` creates or truncates the
\* file at p before it is read.
demo_write ==
    /\ pc = "idle"
    /\ \E p \in Paths :
          /\ path' = p
          /\ IF fs[p].state \in {"missing", "ok", "undecodable"}
                THEN /\ fs' = [fs EXCEPT ![p] = [state |-> "ok", text |-> "demo\n"]]
                     /\ UNCHANGED <<pc, op, out>>
                ELSE /\ fs' = fs
                     /\ op' = "demo_write"
                     /\ out' = Raised(OpenError(fs[p]))
                     /\ pc' = "done"
    /\ UNCHANGED <<retryVars, handle, closes, start, body, now, trace>>
    /\ UNCHANGED appVars
    /\ UNCHANGED extVars

\* open_read(path), first line: f = open(path, "r", encoding="utf-8"). When open
\* raises, the generator ends before its try block and the with statement is
\* never entered.
open_read_open ==
    /\ pc = "idle"
    /\ op' = "open_read"
    /\ \E p \in Paths :
          /\ path' = p
          /\ IF OpenError(fs[p]) # None
                THEN /\ out' = Raised(OpenError(fs[p]))
                     /\ handle' = handle
                     /\ trace' = trace
                     /\ pc' = "done"
                ELSE /\ out' = out
                     /\ handle' = "open"
                     /\ trace' = Append(trace, PrintEv("open", 0, Running, 0))
                     /\ pc' = "open_read_read"
    /\ UNCHANGED <<retryVars, fs, closes, start, body, now>>
    /\ UNCHANGED appVars
    /\ UNCHANGED extVars

\* try: yield f.read(). A failing read leaves the try block with the exception
\* pending; otherwise the content is handed to the with statement's body.
open_read_read ==
    /\ pc = "open_read_read"
    /\ IF ReadFile(fs[path]).kind = "raise"
          THEN /\ body' = ReadFile(fs[path])
               /\ pc' = "open_read_finally"
          ELSE /\ body' = body
               /\ pc' = "open_read_body"
    /\ UNCHANGED <<op, retryVars, fs, path, handle, closes, start, now, trace, out>>
    /\ UNCHANGED appVars
    /\ UNCHANGED extVars

\* The body of `with open_read(p) as content`: it finishes, or it raises and the
\* exception is thrown into the generator at its yield.
open_read_body ==
    /\ pc = "open_read_body"
    /\ \E b \in BodyOutcomes : body' = b
    /\ trace' = Append(trace, PrintEv("content", 0, ReadFile(fs[path]), 0))
    /\ pc' = "open_read_finally"
    /\ UNCHANGED <<op, retryVars, fs, path, handle, closes, start, now, out>>
    /\ UNCHANGED appVars
    /\ UNCHANGED extVars

\* A generator without try/finally: the close is skipped when an exception is
\* thrown in.
ClosesOnExit_normal_only(pending) == pending.kind # "raise"

\* finally: the block runs however the try block was left.
ClosesOnExit(pending) == TRUE

\* finally: f.close(); then the generator ends, or the pending exception goes on
\* and the with statement re-raises it.
open_read_finally ==
    /\ pc = "open_read_finally"
    /\ IF ClosesOnExit(body)
          THEN /\ handle' = "closed"
               /\ closes' = closes + 1
               /\ trace' = Append(trace, PrintEv("close", 0, Running, 0))
          ELSE UNCHANGED <<handle, closes, trace>>
    /\ out' = WithOutcome(body, FALSE)
    /\ pc' = "done"
    /\ UNCHANGED <<op, retryVars, fs, path, start, body, now>>
    /\ UNCHANGED appVars
    /\ UNCHANGED extVars

\* ------------------------------------------------------------------ files.py
\* Path.read_text(encoding="utf-8"): open, read, close.
ReadText(file) ==
    IF OpenError(file) # None THEN Raised(OpenError(file)) ELSE ReadFile(file)

\* A handler for every OSError.
SafeCatches_oserror(e) ==
    e.cls \in {"FileNotFoundError", "PermissionError", "IsADirectoryError",
               "NotADirectoryError"}

\* `except FileNotFoundError`
SafeCatches(e) == e.cls = "FileNotFoundError"

\* safe_open_read(path): try: return path.read_text(...) / except
\* FileNotFoundError: return ""
safe_open_read_result(file) ==
    LET r == ReadText(file)
    IN  IF r.kind = "raise" /\ SafeCatches(r.exc) THEN Returned(StrVal("")) ELSE r

safe_open_read ==
    /\ pc = "idle"
    /\ op' = "safe_open_read"
    /\ \E p \in Paths :
          /\ path' = p
          /\ out' = safe_open_read_result(fs[p])
    /\ pc' = "done"
    /\ UNCHANGED <<retryVars, fs, handle, closes, start, body, now, trace>>
    /\ UNCHANGED appVars
    /\ UNCHANGED extVars

\* ---------------------------------------------------------------- fastapi.py
\* Largest item id the model lets POST /item hand out.
MaxItemId == 3

\* The worker threads that run the `def` handlers of concurrent requests.
Threads == {"w1", "w2"}
\* Form fields of POST /item; a price is in hundredths.
Names == {"pear", "fig"}
Prices == {120}
\* item_id values of GET /item/{item_id}.
ItemIds == 0..(MaxItemId + 1)

\* Item(id, name, price), the dataclass.
Item(id, name, price) == [cls |-> "Item", id |-> id, name |-> name, price |-> price]

\* dataclasses.asdict(item): a dict of the fields.
asdict(item) == [id |-> item.id, name |-> item.name, price |-> item.price]

\* IN_MEMORY_DB as the module creates it: {1: Item(1, "apple", 0.5)}.
InitialDB == [k \in {1} |-> Item(1, "apple", 50)]

NoRequest == [route |-> "none", id |-> 0, name |-> "", price |-> 0, bad |-> FALSE]
GetItem(id) == [route |-> "read_item", id |-> id, name |-> "", price |-> 0, bad |-> FALSE]
PostItem(n, p) == [route |-> "create_item", id |-> 0, name |-> n, price |-> p, bad |-> FALSE]
ErrorDemo(b) == [route |-> "error_demo", id |-> 0, name |-> "", price |-> 0, bad |-> b]

NoResponse == [status |-> 0, body |-> [none |-> TRUE]]
Ok(content) == [status |-> 200, body |-> content]

\* Exceptions the handlers raise.
HTTPException(status, detail) == [cls |-> "HTTPException", status |-> status, msg |-> detail]
AppError(msg) == [cls |-> "AppError", status |-> 0, msg |-> msg]

\* A handler that answers with a server error.
app_error_handler_500(exc) == [status |-> 500, body |-> [error |-> exc.msg]]

\* app_error_handler: JSONResponse(status_code=400, content={"error": str(exc)})
app_error_handler(exc) == [status |-> 400, body |-> [error |-> exc.msg]]

\* What the client gets when a handler raises: the handler registered for the
\* exception's class answers (@app.exception_handler(AppError)); the framework
\* answers an HTTPException with its status and detail; anything else is an
\* unhandled server error.
ExceptionResponse(exc) ==
    CASE exc.cls = "AppError" -> app_error_handler(exc)
      [] exc.cls = "HTTPException" -> [status |-> exc.status, body |-> [detail |-> exc.msg]]
      [] OTHER -> [status |-> 500, body |-> [detail |-> "Internal Server Error"]]

MaxOf(S) == CHOOSE m \in S : \A x \in S : x <= m

\* An id taken without the increment.
NextId_no_increment(db) == MaxOf(DOMAIN db \cup {0})

\* max(IN_MEMORY_DB.keys(), default=0) + 1
NextId(db) == IF DOMAIN db = {} THEN 1 ELSE MaxOf(DOMAIN db) + 1

\* A check that takes the newest key for missing.
ItemMissing_newest(db, id) == id \notin DOMAIN db \/ id = MaxOf(DOMAIN db \cup {0})

\* get_item_or_404: `item_id not in IN_MEMORY_DB`
ItemMissing(db, id) == id \notin DOMAIN db

\* IN_MEMORY_DB[new_id] = item
Store(db, id, item) == [k \in DOMAIN db \cup {id} |-> IF k = id THEN item ELSE db[k]]

\* GET /item/{item_id}, get_item_or_404's test: a missing key raises
\* HTTPException(404), which the framework turns into the response.
read_item_check(t) ==
    /\ tpc[t] = "idle"
    /\ \E id \in ItemIds :
          /\ req' = [req EXCEPT ![t] = GetItem(id)]
          /\ IF ItemMissing(DB, id)
                THEN /\ resp' = [resp EXCEPT ![t] =
                                    ExceptionResponse(HTTPException(404, "Item not found"))]
                     /\ tpc' = [tpc EXCEPT ![t] = "done"]
                ELSE /\ resp' = [resp EXCEPT ![t] = NoResponse]
                     /\ tpc' = [tpc EXCEPT ![t] = "read_item_return"]
    /\ db0' = [db0 EXCEPT ![t] = DB]
    /\ UNCHANGED <<DB, new_id>>
    /\ UNCHANGED scriptVars
    /\ UNCHANGED extVars

\* get_item_or_404's `return IN_MEMORY_DB[item_id]`, then read_item's
\* `return asdict(item)`.
read_item_return(t) ==
    /\ tpc[t] = "read_item_return"
    /\ resp' = [resp EXCEPT ![t] = Ok(asdict(DB[req[t].id]))]
    /\ tpc' = [tpc EXCEPT ![t] = "done"]
    /\ UNCHANGED <<DB, req, new_id, db0>>
    /\ UNCHANGED scriptVars
    /\ UNCHANGED extVars

\* POST /item, first statement: new_id = max(IN_MEMORY_DB.keys(), default=0) + 1
create_item_new_id(t) ==
    /\ tpc[t] = "idle"
    /\ NextId(DB) <= MaxItemId
    /\ \E n \in Names, p \in Prices : req' = [req EXCEPT ![t] = PostItem(n, p)]
    /\ new_id' = [new_id EXCEPT ![t] = NextId(DB)]
    /\ db0' = [db0 EXCEPT ![t] = DB]
    /\ resp' = [resp EXCEPT ![t] = NoResponse]
    /\ tpc' = [tpc EXCEPT ![t] = "create_item_store"]
    /\ UNCHANGED DB
    /\ UNCHANGED scriptVars
    /\ UNCHANGED extVars

\* POST /item, the rest: item = Item(new_id, name, price);
\* IN_MEMORY_DB[new_id] = item; return asdict(item)
create_item_store(t) ==
    /\ tpc[t] = "create_item_store"
    /\ LET item == Item(new_id[t], req[t].name, req[t].price)
       IN  /\ DB' = Store(DB, new_id[t], item)
           /\ resp' = [resp EXCEPT ![t] = Ok(asdict(item))]
    /\ tpc' = [tpc EXCEPT ![t] = "done"]
    /\ UNCHANGED <<req, new_id, db0>>
    /\ UNCHANGED scriptVars
    /\ UNCHANGED extVars

\* GET /error_demo: with bad the handler raises AppError("demonstration error"),
\* which the registered exception handler answers; otherwise {"ok": True}.
error_demo(t) ==
    /\ tpc[t] = "idle"
    /\ \E bad \in BOOLEAN :
          /\ req' = [req EXCEPT ![t] = ErrorDemo(bad)]
          /\ resp' = [resp EXCEPT ![t] =
                         IF bad THEN ExceptionResponse(AppError("demonstration error"))
                                ELSE Ok([ok |-> TRUE])]
    /\ db0' = [db0 EXCEPT ![t] = DB]
    /\ tpc' = [tpc EXCEPT ![t] = "done"]
    /\ UNCHANGED <<DB, new_id>>
    /\ UNCHANGED scriptVars
    /\ UNCHANGED extVars

\* The response is sent; the worker thread is free for the next request.
send_response(t) ==
    /\ tpc[t] = "done"
    /\ tpc' = [tpc EXCEPT ![t] = "idle"]
    /\ req' = [req EXCEPT ![t] = NoRequest]
    /\ resp' = [resp EXCEPT ![t] = NoResponse]
    /\ new_id' = [new_id EXCEPT ![t] = 0]
    /\ db0' = [db0 EXCEPT ![t] = DB]
    /\ UNCHANGED DB
    /\ UNCHANGED scriptVars
    /\ UNCHANGED extVars


\* -------------------------------------------------------------- data_types.py
\* Longest iterable first_even is called with, and its largest element.
MaxLen == 3
MaxElem == 2

\* The ints an iterable may hold: negative, zero, positive.
Elems == (0 - 1)..MaxElem
SeqsUpTo(S, n) == UNION {[1..k -> S] : k \in 0..n}

\* A test that takes the odd numbers.
IsEven_odd(n) == n % 2 = 1

\* `n % 2 == 0`; Python's % has the sign of the divisor, as TLA+'s has.
IsEven(n) == n % 2 = 0

\* first_even(nums) is called: the for statement makes its iterator.
first_even_call ==
    /\ p_pc = "idle"
    /\ \E ns \in SeqsUpTo(Elems, MaxLen) : nums' = ns
    /\ idx' = 0
    /\ p_pc' = "first_even_for"
    /\ UNCHANGED <<p_out, values>>
    /\ UNCHANGED <<scriptVars, appVars, cacheVars, asyncVars>>

\* One turn of `for n in nums: if n % 2 == 0: return n`, or, the iterator
\* exhausted, `return None`.
first_even_for ==
    /\ p_pc = "first_even_for"
    /\ IF idx < Len(nums)
          THEN IF IsEven(nums[idx + 1])
                  THEN /\ p_out' = Returned(IntVal(nums[idx + 1]))
                       /\ p_pc' = "first_even_done"
                       /\ idx' = idx + 1
                  ELSE /\ p_out' = p_out
                       /\ p_pc' = "first_even_for"
                       /\ idx' = idx + 1
          ELSE /\ p_out' = Returned(NoneVal)
               /\ p_pc' = "first_even_done"
               /\ idx' = idx
    /\ UNCHANGED <<nums, values>>
    /\ UNCHANGED <<scriptVars, appVars, cacheVars, asyncVars>>


\* ------------------------------------------------ fastapi.py: builtin_stats
\* Longest `values` string of GET /builtins/stats.
MaxStrLen == 5

\* The characters of `values`: digits, the sign, the blank, the separator.
Chars == {"1", "2", "-", " ", ","}
Digits == {"0", "1", "2", "3", "4", "5", "6", "7", "8", "9"}
DigitVal(c) ==
    CASE c = "0" -> 0 [] c = "1" -> 1 [] c = "2" -> 2 [] c = "3" -> 3 [] c = "4" -> 4
      [] c = "5" -> 5 [] c = "6" -> 6 [] c = "7" -> 7 [] c = "8" -> 8 [] c = "9" -> 9

\* str.split(","): the fields between the separators; one more field than there
\* are separators, so "" splits into [""].
RECURSIVE SplitFrom(_, _, _)
SplitFrom(str, i, cur) ==
    IF i > Len(str) THEN <<cur>>
    ELSE IF str[i] = "," THEN <<cur>> \o SplitFrom(str, i + 1, <<>>)
    ELSE SplitFrom(str, i + 1, Append(cur, str[i]))
Split(str) == SplitFrom(str, 1, <<>>)

\* str.strip(): without the leading and the trailing blanks.
RECURSIVE LStrip(_)
LStrip(x) == IF x # <<>> /\ Head(x) = " " THEN LStrip(Tail(x)) ELSE x
RECURSIVE RStrip(_)
RStrip(x) == IF x # <<>> /\ x[Len(x)] = " " THEN RStrip(SubSeq(x, 1, Len(x) - 1)) ELSE x
Strip(x) == RStrip(LStrip(x))

\* A filter that keeps every field that has a character.
KeepField_no_strip(x) == x # <<>>

\* `if x.strip()`: the field is kept when something is left of it.
KeepField(x) == Strip(x) # <<>>

\* int(x) accepts blanks around an optional sign and at least one digit;
\* anything else is a ValueError.
IsIntLiteral(x) ==
    LET y == Strip(x)
        d == IF y # <<>> /\ Head(y) = "-" THEN Tail(y) ELSE y
    IN  d # <<>> /\ \A k \in 1..Len(d) : d[k] \in Digits

RECURSIVE DigitsValue(_)
DigitsValue(d) ==
    IF d = <<>> THEN 0
    ELSE 10 * DigitsValue(SubSeq(d, 1, Len(d) - 1)) + DigitVal(d[Len(d)])

\* int(x) of a literal.
IntOf(x) ==
    LET y == Strip(x)
    IN  IF Head(y) = "-" THEN 0 - DigitsValue(Tail(y)) ELSE DigitsValue(y)

RECURSIVE SumSeq(_)
SumSeq(q) == IF q = <<>> THEN 0 ELSE Head(q) + SumSeq(Tail(q))
MinSeq(q) == CHOOSE m \in {q[k] : k \in 1..Len(q)} : \A k \in 1..Len(q) : m <= q[k]
MaxSeq(q) == CHOOSE m \in {q[k] : k \in 1..Len(q)} : \A k \in 1..Len(q) : m >= q[k]

\* The dict builtin_stats returns for the list nums.
StatsOf(q) ==
    [count |-> Len(q),
     sum |-> SumSeq(q),
     min |-> IF q # <<>> THEN IntVal(MinSeq(q)) ELSE NoneVal,
     max |-> IF q # <<>> THEN IntVal(MaxSeq(q)) ELSE NoneVal]

\* GET /builtins/stats: nums = [int(x) for x in values.split(",") if x.strip()];
\* a field int() rejects raises ValueError, which no handler is registered for.
builtin_stats ==
    /\ p_pc = "idle"
    /\ \E v \in SeqsUpTo(Chars, MaxStrLen) :
          /\ values' = v
          /\ LET kept == SelectSeq(Split(v), KeepField)
             IN  IF \A k \in 1..Len(kept) : IsIntLiteral(kept[k])
                    THEN p_out' = Ok(StatsOf([k \in 1..Len(kept) |-> IntOf(kept[k])]))
                    ELSE p_out' = ExceptionResponse(
                                     [cls |-> "ValueError", status |-> 0,
                                      msg |-> "invalid literal for int() with base 10"])
    /\ p_pc' = "builtin_stats_done"
    /\ UNCHANGED <<nums, idx>>
    /\ UNCHANGED <<scriptVars, appVars, cacheVars, asyncVars>>


\* ------------------------------------------------- fastapi.py: simple_cache
\* Calls of the wrapped function the model follows.
MaxCalls == 3

\* Positional arguments, keyword names and values of the calls.
ArgTuples == {<<1>>, <<2>>}
KwNames == {"a", "b"}
KwVals == {1}
\* Values the wrapped function may return; it need not return the same value
\* for the same arguments.
FuncVals == {10, 20}

\* **kwargs as written at the call: (name, value) pairs, no name twice.
KwargsWritten ==
    {q \in SeqsUpTo(KwNames \X KwVals, Cardinality(KwNames)) :
        \A i, j \in 1..Len(q) : i # j => q[i][1] # q[j][1]}

\* The order of str on the keyword names.
NameRank(n) == CASE n = "a" -> 1 [] n = "b" -> 2
ItemLess(x, y) == NameRank(x[1]) < NameRank(y[1]) \/ (x[1] = y[1] /\ x[2] < y[2])

\* sorted(kwargs.items())
RECURSIVE InsertItem(_, _)
InsertItem(x, q) ==
    IF q = <<>> THEN <<x>>
    ELSE IF ItemLess(x, Head(q)) THEN <<x>> \o q
    ELSE <<Head(q)>> \o InsertItem(x, Tail(q))
RECURSIVE SortItems(_)
SortItems(q) == IF q = <<>> THEN <<>> ELSE InsertItem(Head(q), SortItems(Tail(q)))

\* A key that keeps the keyword arguments in the order written.
CacheKey_unsorted(args, kwargs) == <<args, kwargs>>

\* key = (args, tuple(sorted(kwargs.items())))
CacheKey(args, kwargs) == <<args, SortItems(kwargs)>>

\* The arguments of a call, whatever the order they are written in.
ArgSet(args, kwargs) == [args |-> args, kw |-> {kwargs[i] : i \in 1..Len(kwargs)}]
ArgSets == {ArgSet(a, k) : a \in ArgTuples, k \in KwargsWritten}

NoCall == [args |-> <<>>, kwargs |-> <<>>]

\* wrapper(*args, **kwargs), up to the lookup: a hit logs and returns the stored
\* value.
cache_lookup ==
    /\ c_pc \in {"idle", "done"}
    /\ c_n < MaxCalls
    /\ c_n' = c_n + 1
    /\ \E a \in ArgTuples, k \in KwargsWritten :
          /\ c_call' = [args |-> a, kwargs |-> k]
          /\ IF CacheKey(a, k) \in DOMAIN cache
                THEN /\ c_out' = Returned(IntVal(cache[CacheKey(a, k)]))
                     /\ c_pc' = "done"
                ELSE /\ c_out' = Running
                     /\ c_pc' = "cache_func"
    /\ c_before' = cache
    /\ c_ran' = FALSE
    /\ UNCHANGED <<cache, c_execs, c_first>>
    /\ UNCHANGED <<scriptVars, appVars, pureVars, asyncVars>>

\* val = func(*args, **kwargs); cache[key] = val; return val. When func raises,
\* the exception leaves the wrapper before the store.
cache_func ==
    /\ c_pc = "cache_func"
    /\ c_ran' = TRUE
    /\ LET key == CacheKey(c_call.args, c_call.kwargs)
           as == ArgSet(c_call.args, c_call.kwargs)
       IN  \/ \E v \in FuncVals :
                /\ cache' = [k \in DOMAIN cache \cup {key} |->
                                IF k = key THEN v ELSE cache[k]]
                /\ c_out' = Returned(IntVal(v))
                /\ c_execs' = [c_execs EXCEPT ![as] = @ + 1]
                /\ c_first' = IF c_execs[as] = 0
                                 THEN [c_first EXCEPT ![as] = IntVal(v)]
                                 ELSE c_first
           \/ \E c \in FuncExcClasses :
                /\ c_out' = Raised(Exc(c, c_n))
                /\ UNCHANGED <<cache, c_execs, c_first>>
    /\ c_pc' = "done"
    /\ UNCHANGED <<c_call, c_before, c_n>>
    /\ UNCHANGED <<scriptVars, appVars, pureVars, asyncVars>>


\* ------------------------------------------------------ fastapi.py: ws_echo
\* Text messages the model lets one connection receive.
MaxMsgs == 3

\* Texts a client sends.
WsTexts == {"hi", "yo"}
\* What an await on the websocket may raise: the peer went away; a frame that is
\* no text frame; the task was cancelled (a BaseException, not an Exception).
WsExcClasses == {"WebSocketDisconnect", "KeyError", "CancelledError"}

\* A handler for every BaseException.
WsCatches_all(e) == TRUE

\* `except Exception:`
WsCatches(e) == IsException(e.cls)

\* f"echo: {data}"
EchoOf(data) == "echo: " \o data

\* await ws.accept(), before the try block: a failure here leaves the coroutine.
ws_accept ==
    /\ ws_pc = "idle"
    /\ \/ /\ ws_pc' = "ws_receive"
          /\ ws_exc' = ws_exc
       \/ /\ ws_pc' = "failed"
          /\ ws_exc' = Exc("RuntimeError", 0)
    /\ UNCHANGED <<ws_data, ws_recv, ws_sent, ws_closes>>
    /\ UNCHANGED <<scriptVars, appVars, pureVars, cacheVars, streamVars>>

\* data = await ws.receive_text(): a text message, or an exception, which the
\* except clause catches or not.
ws_receive ==
    /\ ws_pc = "ws_receive"
    /\ \/ /\ Len(ws_recv) < MaxMsgs
          /\ \E m \in WsTexts :
                /\ ws_data' = m
                /\ ws_recv' = Append(ws_recv, m)
          /\ ws_pc' = "ws_send"
          /\ ws_exc' = ws_exc
       \/ /\ \E c \in WsExcClasses :
                /\ ws_exc' = Exc(c, Len(ws_recv) + 1)
                /\ ws_pc' = IF WsCatches(Exc(c, Len(ws_recv) + 1))
                               THEN "ws_close" ELSE "raised"
          /\ UNCHANGED <<ws_data, ws_recv>>
    /\ UNCHANGED <<ws_sent, ws_closes>>
    /\ UNCHANGED <<scriptVars, appVars, pureVars, cacheVars, streamVars>>

\* await ws.send_text(f"echo: {data}"): the message goes out, or the await
\* raises.
ws_send ==
    /\ ws_pc = "ws_send"
    /\ \/ /\ ws_sent' = Append(ws_sent, EchoOf(ws_data))
          /\ ws_pc' = "ws_receive"
          /\ ws_exc' = ws_exc
       \/ /\ \E c \in WsExcClasses \ {"KeyError"} :
                /\ ws_exc' = Exc(c, Len(ws_recv))
                /\ ws_pc' = IF WsCatches(Exc(c, Len(ws_recv)))
                               THEN "ws_close" ELSE "raised"
          /\ ws_sent' = ws_sent
    /\ UNCHANGED <<ws_data, ws_recv, ws_closes>>
    /\ UNCHANGED <<scriptVars, appVars, pureVars, cacheVars, streamVars>>

\* except Exception: await ws.close(); then the coroutine returns.
ws_close ==
    /\ ws_pc = "ws_close"
    /\ ws_closes' = ws_closes + 1
    /\ ws_pc' = "returned"
    /\ UNCHANGED <<ws_data, ws_recv, ws_sent, ws_exc>>
    /\ UNCHANGED <<scriptVars, appVars, pureVars, cacheVars, streamVars>>

\* ------------------------------------------------ fastapi.py: number_stream
\* range(5)
StreamCount == 5

\* str(i) of a one-digit int, and the UTF-8 bytes of the characters used.
DigitChar(i) ==
    CASE i = 0 -> "0" [] i = 1 -> "1" [] i = 2 -> "2" [] i = 3 -> "3" [] i = 4 -> "4"
      [] i = 5 -> "5" [] i = 6 -> "6" [] i = 7 -> "7" [] i = 8 -> "8" [] i = 9 -> "9"
RECURSIVE StrOfNat(_)
StrOfNat(i) == IF i < 10 THEN <<DigitChar(i)>> ELSE Append(StrOfNat(i \div 10), DigitChar(i % 10))
ByteOf(c) == IF c = "\n" THEN 10 ELSE 48 + DigitVal(c)
Encode(str) == [k \in 1..Len(str) |-> ByteOf(str[k])]

\* A chunk numbered from one.
StreamChunk_from_one(i) == Encode(Append(StrOfNat(i + 1), "\n"))

\* f"{i}\n".encode()
StreamChunk(i) == Encode(Append(StrOfNat(i), "\n"))

\* GET /stream/numbers: StreamingResponse(number_stream()) makes the generator;
\* nothing of its body runs yet.
stream_numbers ==
    /\ st_pc = "idle"
    /\ st_pc' = "st_for"
    /\ st_i' = 0 - 1
    /\ UNCHANGED <<st_sleeps, st_chunks>>
    /\ UNCHANGED <<scriptVars, appVars, pureVars, cacheVars, wsVars>>

\* `for i in range(5)`: the next i, or the generator finishes.
number_stream_for ==
    /\ st_pc = "st_for"
    /\ IF st_i + 1 < StreamCount
          THEN /\ st_i' = st_i + 1
               /\ st_pc' = "st_sleep"
          ELSE /\ st_i' = st_i
               /\ st_pc' = "finished"
    /\ UNCHANGED <<st_sleeps, st_chunks>>
    /\ UNCHANGED <<scriptVars, appVars, pureVars, cacheVars, wsVars>>

\* await asyncio.sleep(0.1): it completes, or the task iterating the generator is
\* cancelled and CancelledError ends the generator.
number_stream_sleep ==
    /\ st_pc = "st_sleep"
    /\ \/ /\ st_sleeps' = st_sleeps + 1
          /\ st_pc' = "st_yield"
       \/ /\ st_sleeps' = st_sleeps
          /\ st_pc' = "cancelled"
    /\ UNCHANGED <<st_i, st_chunks>>
    /\ UNCHANGED <<scriptVars, appVars, pureVars, cacheVars, wsVars>>

\* yield f"{i}\n".encode(): the chunk goes to the consumer and the generator is
\* suspended.
number_stream_yield ==
    /\ st_pc = "st_yield"
    /\ st_chunks' = Append(st_chunks, StreamChunk(st_i))
    /\ st_pc' = "suspended"
    /\ UNCHANGED <<st_i, st_sleeps>>
    /\ UNCHANGED <<scriptVars, appVars, pureVars, cacheVars, wsVars>>

\* The consumer asks for the next chunk, or gives the generator up (the client
\* went away) and the generator is closed at its yield.
stream_consumer ==
    /\ st_pc = "suspended"
    /\ \/ st_pc' = "st_for"
       \/ st_pc' = "closed"
    /\ UNCHANGED <<st_i, st_sleeps, st_chunks>>
    /\ UNCHANGED <<scriptVars, appVars, pureVars, cacheVars, wsVars>>


\* ------------------------------------------------------- retry: the claims
\* The calls of the wrapped function made so far, in order.
Calls == SelectSeq(trace, LAMBDA e : e.ev = "call")
NumCalls == Len(Calls)
NumSleeps == Len(SelectSeq(trace, LAMBDA e : e.ev = "sleep"))
Max0(t) == IF t > 0 THEN t ELSE 0
RetryEnded == retry_out # Running

\* C1 (as stated): whenever the retry wrapper ends by raising, the exception it
\* raises is the very exception object the last attempt's call raised.
C1_RaisesLastAttemptsException ==
    (RetryEnded /\ retry_out.kind = "raise") =>
        /\ NumCalls >= 1
        /\ Calls[NumCalls].res = retry_out

\* C2 (as stated): at most `times` calls; a returning attempt ends the call with
\* its result; when every attempt raises, exactly `times` attempts are made.
C2_AttemptsAsStated ==
    /\ pc # "idle" => NumCalls <= times
    /\ \A i \in 1..NumCalls :
          Calls[i].res.kind = "return" => (i = NumCalls /\ retry_out = Calls[i].res)
    /\ (RetryEnded /\ \A i \in 1..NumCalls : Calls[i].res.kind = "raise")
          => NumCalls = times

\* C2 (amended): the attempts are numbered 1, 2, ... and there are at most
\* max(times, 0) of them; an attempt that returns, or that raises an exception
\* not derived from Exception, is the last one and its outcome is the wrapper's;
\* when every attempt raises an exception derived from Exception, exactly
\* max(times, 0) attempts are made before the wrapper gives up.
C2_Attempts ==
    /\ pc # "idle" => NumCalls <= Max0(times)
    /\ \A i \in 1..NumCalls : Calls[i].n = i
    /\ \A i \in 1..NumCalls :
          (Calls[i].res.kind = "return" \/ ~IsException(Calls[i].res.exc.cls))
             => (i = NumCalls /\ retry_out = Calls[i].res)
    /\ (RetryEnded /\ \A i \in 1..NumCalls :
            Calls[i].res.kind = "raise" /\ IsException(Calls[i].res.exc.cls))
          => NumCalls = Max0(times)

\* C2's case: three attempts were allowed, all three raised, the wrapper gave up.
C2_Witness ==
    /\ RetryEnded
    /\ times = 3
    /\ NumCalls = 3
    /\ \A i \in 1..NumCalls : Calls[i].res.kind = "raise"

\* C3 (as stated): a call of the wrapper that made k >= 1 attempts slept k - 1
\* times: once between consecutive attempts, never after the final attempt.
C3_SleepsOnlyBetweenAttempts ==
    (RetryEnded /\ NumCalls >= 1) => NumSleeps = NumCalls - 1

\* C4 (as stated): whatever an attempt that is not the last one raises, the
\* wrapper records it and goes on: a raise never propagates from an attempt
\* numbered below `times`.
C4_NoClassificationAsStated ==
    \A i \in 1..NumCalls :
        (Calls[i].res.kind = "raise" /\ Calls[i].n < times)
            => (i < NumCalls \/ (~RetryEnded /\ last_exc = Calls[i].res.exc))

\* C4 (amended): whatever exception derived from Exception an attempt that is
\* not the last one raises, the wrapper records it in last_exc and goes on to the
\* next attempt; it does not propagate at once.
C4_NoClassification ==
    \A i \in 1..NumCalls :
        (/\ Calls[i].res.kind = "raise"
         /\ IsException(Calls[i].res.exc.cls)
         /\ Calls[i].n < times)
            => (i < NumCalls \/ (~RetryEnded /\ last_exc = Calls[i].res.exc))

\* C4's case: two different classes of failure in attempts that were not the
\* last, each followed by a further attempt.
C4_Witness ==
    /\ NumCalls = 3
    /\ Calls[1].res.kind = "raise" /\ Calls[1].res.exc.cls = "RuntimeError"
    /\ Calls[2].res.kind = "raise" /\ Calls[2].res.exc.cls = "ValueError"


\* ------------------------------------------- files, context managers: claims
PrintCount(what) == Len(SelectSeq(trace, LAMBDA e : e.ev = what))

\* C7, in the states after a call of safe_open_read(path).
C7_Result ==
    (op = "safe_open_read" /\ pc = "done") =>
        /\ fs[path].state = "missing" => out = Returned(StrVal(""))
        /\ fs[path].state = "ok" => out = Returned(StrVal(fs[path].text))
        /\ fs[path].state \notin {"missing", "ok"} =>
              (out.kind = "raise" /\ out.exc.cls # "FileNotFoundError")

\* C7: safe_open_read(path) returns "" when the file is missing and the file's
\* text when it can be read; any other failure of the read (permission, a
\* directory, undecodable bytes) propagates as the exception it is; and the call
\* leaves the file system as it was.
C7_SafeOpenRead ==
    /\ [](C7_Result)
    /\ [][(pc = "idle" /\ op' = "safe_open_read") => fs' = fs]_vars

\* C7's case: the file is missing and the call returned the empty string while
\* the other path holds a readable file.
C7_Witness ==
    /\ op = "safe_open_read" /\ pc = "done"
    /\ fs[path].state = "missing"
    /\ out = Returned(StrVal(""))
    /\ \E q \in Paths : fs[q].state = "ok"

\* C8: once open_read has opened the file, the handle is open only inside the
\* with statement and f.close() has run exactly once when the statement is left,
\* whether the body finished, the body raised or the read raised; what the body
\* (or the read) raised reaches the caller, with the file already closed.
C8_OpenReadCloses ==
    /\ closes <= 1
    /\ handle = "open" => pc \in {"open_read_read", "open_read_body", "open_read_finally"}
    /\ (op = "open_read" /\ pc = "done") =>
          /\ PrintCount("open") = 1 => (handle = "closed" /\ closes = 1)
          /\ PrintCount("open") = 0 => (handle = "none" /\ closes = 0)
          /\ body.kind = "raise" => (out = body /\ handle = "closed")
          /\ body.kind = "return" => out.kind = "return"

\* C8's case: the body of the with statement ran and raised; the with statement
\* was left with the file closed once.
C8_Witness ==
    /\ op = "open_read" /\ pc = "done"
    /\ PrintCount("content") = 1
    /\ body.kind = "raise" /\ body.exc.cls = "RuntimeError"
    /\ closes = 1

\* C9: Timer and timed report exactly once, at the end, on the normal and on
\* the exceptional path, and change nothing: what was raised inside
\* `with Timer(...)` or inside the timed function reaches the caller as the same
\* exception, and the timed function's return value is returned as it is.
C9_TimingIsTransparent ==
    /\ PrintCount("took") <= 1
    /\ PrintCount("ended") <= 1
    /\ (op = "flaky" /\ pc # "done") => PrintCount("took") = 0
    /\ (op = "flaky" /\ pc = "done") => (PrintCount("took") = 1 /\ out = retry_out)
    /\ (op = "timer" /\ pc # "done") => PrintCount("ended") = 0
    /\ (op = "timer" /\ pc = "done") =>
          /\ PrintCount("ended") = 1
          /\ body.kind = "raise" => out = body
          /\ body.kind = "return" => out.kind = "return"

\* C9's case: the body of `with Timer(...)` raised, the report was printed and
\* the exception reached the caller.
C9_Witness ==
    /\ op = "timer" /\ pc = "done"
    /\ body.kind = "raise"
    /\ out = body
    /\ PrintCount("ended") = 1


\* --------------------------------------------------------- web app: claims
\* C5: with the requests handled one after the other, GET /item/{id} answers 404
\* "Item not found" exactly when id is not a key of IN_MEMORY_DB and otherwise
\* answers 200 with the fields of the item stored under id; the dictionary is
\* what it was when the request came in.
C5_ReadItem ==
    \A t \in Threads :
        (tpc[t] = "done" /\ req[t].route = "read_item") =>
            /\ DB = db0[t]
            /\ IF req[t].id \in DOMAIN DB
                  THEN resp[t] = [status |-> 200,
                                  body |-> [id |-> DB[req[t].id].id,
                                            name |-> DB[req[t].id].name,
                                            price |-> DB[req[t].id].price]]
                  ELSE resp[t] = [status |-> 404, body |-> [detail |-> "Item not found"]]

\* C5's case: after a POST /item, a GET of the created item was answered with
\* its fields.
C5_Witness ==
    \E t \in Threads :
        /\ tpc[t] = "done" /\ req[t].route = "read_item"
        /\ req[t].id = 2
        /\ resp[t].status = 200
        /\ resp[t].body.name \in Names

\* C6 (as stated): however POST /item requests interleave, the outcome is that
\* of some sequential order: two requests never get the same id, and every item
\* a request was answered with is the item stored under its id.
C6_ConcurrentPostsSerialize ==
    \A t \in Threads :
        (tpc[t] = "done" /\ req[t].route = "create_item") =>
            /\ resp[t].body.id \in DOMAIN DB
            /\ asdict(DB[resp[t].body.id]) = resp[t].body
            /\ \A u \in Threads \ {t} :
                  (tpc[u] = "done" /\ req[u].route = "create_item")
                      => resp[u].body.id # resp[t].body.id

\* C10: GET /error_demo never ends as a server error: with bad=true the answer
\* is 400 {"error": "demonstration error"}, the message of the AppError raised;
\* with bad=false it is 200 {"ok": true}.
C10_ErrorDemo ==
    \A t \in Threads :
        (tpc[t] = "done" /\ req[t].route = "error_demo") =>
            IF req[t].bad
               THEN resp[t] = [status |-> 400, body |-> [error |-> "demonstration error"]]
               ELSE resp[t] = [status |-> 200, body |-> [ok |-> TRUE]]

\* C10's case: a request with bad=true was answered 400 while another request
\* was being handled.
C10_Witness ==
    \E t \in Threads :
        /\ tpc[t] = "done" /\ req[t].route = "error_demo" /\ req[t].bad
        /\ resp[t].status = 400
        /\ \E u \in Threads \ {t} : tpc[u] # "idle"


\* ------------------------------------------------------ data_types: claims
\* The positions of the even elements of nums.
EvenPositions == {i \in 1..Len(nums) : nums[i] % 2 = 0}

\* C11: first_even(nums) returns the first element of nums, in iteration order,
\* that is even, and returns None exactly when nums has no even element (the
\* empty nums included).
C11_FirstEven ==
    p_pc = "first_even_done" =>
        IF EvenPositions = {}
           THEN p_out = Returned(NoneVal)
           ELSE LET first == CHOOSE i \in EvenPositions : \A j \in EvenPositions : i <= j
                IN  /\ p_out = Returned(IntVal(nums[first]))
                    /\ p_out # Returned(NoneVal)

\* C11's case: an odd element, then two different even elements; the first of
\* the two was returned.
C11_Witness ==
    /\ p_pc = "first_even_done"
    /\ Len(nums) = 3
    /\ nums[1] % 2 = 1 /\ nums[2] = 0 /\ nums[3] = 2
    /\ p_out = Returned(IntVal(0))


\* --------------------------------------------------- builtin_stats: claims
\* The fields of `values` that are neither empty nor blanks only.
RemainingFields ==
    SelectSeq(Split(values), LAMBDA x : \E k \in 1..Len(x) : x[k] # " ")
RemainingInts == [k \in 1..Len(RemainingFields) |-> IntOf(RemainingFields[k])]

\* C16: when the fields of `values` that are not empty or blank are integers,
\* GET /builtins/stats answers 200 with count = how many they are, sum = their
\* sum, min / max = the smallest / largest of them; when none remains, count is
\* 0, sum is 0 and min and max are None.
C16_BuiltinStats ==
    (/\ p_pc = "builtin_stats_done"
     /\ \A k \in 1..Len(RemainingFields) : IsIntLiteral(RemainingFields[k])) =>
        /\ p_out.status = 200
        /\ p_out.body.count = Len(RemainingInts)
        /\ p_out.body.sum = SumSeq(RemainingInts)
        /\ IF Len(RemainingInts) = 0
              THEN /\ p_out.body.count = 0
                   /\ p_out.body.sum = 0
                   /\ p_out.body.min = NoneVal
                   /\ p_out.body.max = NoneVal
              ELSE /\ p_out.body.min.t = "int"
                   /\ p_out.body.max.t = "int"
                   /\ \E k \in 1..Len(RemainingInts) : RemainingInts[k] = p_out.body.min.i
                   /\ \E k \in 1..Len(RemainingInts) : RemainingInts[k] = p_out.body.max.i
                   /\ \A k \in 1..Len(RemainingInts) :
                         /\ p_out.body.min.i <= RemainingInts[k]
                         /\ RemainingInts[k] <= p_out.body.max.i

\* C16's case: "2, ,1": the blank field is skipped, two integers remain.
C16_Witness ==
    /\ p_pc = "builtin_stats_done"
    /\ values = <<"2", ",", " ", ",", "1">>
    /\ p_out = [status |-> 200,
                body |-> [count |-> 2, sum |-> 3, min |-> IntVal(1), max |-> IntVal(2)]]


\* ------------------------------------------------------ POST /item: claims
\* C13: with the POST /item requests handled one after the other from
\* {1: apple}, every key k of IN_MEMORY_DB maps to an item whose id is k; a
\* POST /item adds exactly one entry, under max(keys) + 1 (1 for an empty
\* dictionary), which was not a key before, answers with that item, and leaves
\* the earlier entries as they were.
C13_CreateItem ==
    /\ \A k \in DOMAIN DB : DB[k].id = k
    /\ \A t \in Threads :
          (tpc[t] = "done" /\ req[t].route = "create_item") =>
              LET before == db0[t]
                  nid == IF DOMAIN before = {} THEN 1
                         ELSE 1 + CHOOSE m \in DOMAIN before : \A x \in DOMAIN before : x <= m
              IN  /\ nid \notin DOMAIN before
                  /\ DOMAIN DB = DOMAIN before \cup {nid}
                  /\ \A k \in DOMAIN before : DB[k] = before[k]
                  /\ DB[nid] = [cls |-> "Item", id |-> nid,
                                name |-> req[t].name, price |-> req[t].price]
                  /\ resp[t] = [status |-> 200,
                                body |-> [id |-> nid, name |-> req[t].name,
                                          price |-> req[t].price]]

\* C13's case: the second POST /item in a row was answered with id 3, the two
\* earlier entries still there.
C13_Witness ==
    \E t \in Threads :
        /\ tpc[t] = "done" /\ req[t].route = "create_item"
        /\ resp[t].body.id = 3
        /\ DOMAIN DB = {1, 2, 3}
        /\ DB[1].name = "apple"
        /\ DB[2].name # DB[3].name


\* ---------------------------------------------------- simple_cache: claims
\* The arguments a key of `cache` stands for.
ArgSetOfKey(k) == [args |-> k[1], kw |-> {k[2][i] : i \in 1..Len(k[2])}]
\* The keys of the dict d stored for the arguments x.
KeysFor(d, x) == {k \in DOMAIN d : ArgSetOfKey(k) = x}

\* C14: over any sequence of calls of a function wrapped by simple_cache, func
\* is executed to a return at most once per argument set (positional arguments
\* plus keyword arguments, in whatever order they are written); the value it
\* returned then stays stored, never overwritten or removed; a later call with
\* these arguments returns it without executing func; a call in which func
\* raises stores nothing.
C14_SimpleCache ==
    /\ \A x \in ArgSets :
          /\ c_execs[x] <= 1
          /\ c_execs[x] = 1 => KeysFor(cache, x) # {}
    /\ \A k \in DOMAIN cache :
          /\ c_execs[ArgSetOfKey(k)] = 1
          /\ IntVal(cache[k]) = c_first[ArgSetOfKey(k)]
    /\ c_pc = "done" =>
          LET x == [args |-> c_call.args,
                    kw |-> {c_call.kwargs[i] : i \in 1..Len(c_call.kwargs)}]
          IN  /\ KeysFor(c_before, x) # {} =>
                    /\ ~c_ran
                    /\ cache = c_before
                    /\ \A k \in KeysFor(c_before, x) : c_out = Returned(IntVal(c_before[k]))
              /\ KeysFor(c_before, x) = {} => c_ran
              /\ c_out.kind = "raise" => cache = c_before
              /\ (c_ran /\ c_out.kind = "return") =>
                    /\ \A k \in DOMAIN c_before : k \in DOMAIN cache /\ cache[k] = c_before[k]
                    /\ \E k \in KeysFor(cache, x) :
                          /\ DOMAIN cache = DOMAIN c_before \cup {k}
                          /\ c_out = Returned(IntVal(cache[k]))

\* C14's case: the third call, written f(1, b=1, a=1), is answered from the
\* cache without executing func.
C14_Witness ==
    /\ c_pc = "done"
    /\ c_n = 3
    /\ ~c_ran
    /\ c_call = [args |-> <<1>>, kwargs |-> << <<"b", 1>>, <<"a", 1>> >>]
    /\ c_out.kind = "return"

\* ------------------------------------------------------ ws_echo: the claims
\* The echo loop is over: an await inside the try block raised.
WsLoopLeft == ws_pc \in {"ws_close", "returned", "raised"}

\* C12, as stated: the loop answers each received text with "echo: " and the
\* text, in order and before the next receive, sends nothing unprompted, is left
\* only by a raising receive or send, and whenever it has been left the
\* websocket ends up closed exactly once.
C12_WsEchoAsStated ==
    /\ WsLoopLeft => ws_exc # None
    /\ ws_pc \in {"returned", "raised"} => ws_closes = 1

\* C12: every message sent is "echo: " followed by the received text of the same
\* position; the answer to a message is sent before the next receive, so at most
\* the message just received is unanswered and nothing is sent unprompted; the
\* loop is left only by an exception of an await in it; an exception derived
\* from Exception closes the websocket exactly once and the coroutine returns,
\* any other BaseException (asyncio.CancelledError) propagates and the websocket
\* is never closed by the handler.
C12_WsEcho ==
    /\ Len(ws_sent) <= Len(ws_recv)
    /\ Len(ws_recv) <= Len(ws_sent) + 1
    /\ \A k \in 1..Len(ws_sent) : ws_sent[k] = "echo: " \o ws_recv[k]
    /\ ws_pc = "ws_receive" => Len(ws_sent) = Len(ws_recv)
    /\ ws_pc = "ws_send" => /\ Len(ws_recv) = Len(ws_sent) + 1
                            /\ ws_data = ws_recv[Len(ws_recv)]
    /\ WsLoopLeft => ws_exc # None
    /\ ws_pc \in {"idle", "ws_receive", "ws_send"} => ws_exc = None
    /\ ws_closes <= 1
    /\ ws_closes = 1 <=> ws_pc = "returned"
    /\ ws_pc \in {"ws_close", "returned"} => IsException(ws_exc.cls)
    /\ ws_pc = "raised" => ~IsException(ws_exc.cls)

\* Two messages were echoed, then an await raised and the websocket was closed.
C12_Witness ==
    /\ ws_pc = "returned"
    /\ Len(ws_sent) >= 2
    /\ ws_closes = 1
    /\ ws_exc.cls = "WebSocketDisconnect"

\* ------------------------------------------------ number_stream: the claims
\* The bytes of "0\n", "1\n", "2\n", "3\n", "4\n".
C15_Lines == << <<48, 10>>, <<49, 10>>, <<50, 10>>, <<51, 10>>, <<52, 10>> >>

\* C15: what the generator has yielded is always the first chunks of "0\n",
\* "1\n", "2\n", "3\n", "4\n" in that order (none out of order, none twice); one
\* sleep completed before each chunk; a generator that finished has yielded all
\* five, and it finishes only then.
C15_NumberStream ==
    /\ Len(st_chunks) <= Len(C15_Lines)
    /\ st_chunks = SubSeq(C15_Lines, 1, Len(st_chunks))
    /\ st_sleeps = Len(st_chunks) + (IF st_pc = "st_yield" THEN 1 ELSE 0)
    /\ st_pc \in {"st_sleep", "st_yield"} => Len(st_chunks) = st_i
    /\ st_pc = "finished" => st_chunks = C15_Lines

\* The generator was run to its end.
C15_Witness == st_pc = "finished" /\ Len(st_chunks) = 5 /\ st_sleeps = 5

\* ---------------------------------------------------------- specifications
Init ==
    /\ pc = "idle"
    /\ op = "none"
    /\ fs \in [Paths -> FileStates]
    /\ path = ""
    /\ handle = "none"
    /\ closes = 0
    /\ start = NoneVal
    /\ body = Running
    /\ times = 0
    /\ delay = 0
    /\ arg = 0
    /\ attempt = 0
    /\ last_exc = None
    /\ retry_out = Running
    /\ t0 = 0
    /\ now = 0
    /\ trace = <<>>
    /\ out = Running
    /\ DB = InitialDB
    /\ tpc = [t \in Threads |-> "idle"]
    /\ req = [t \in Threads |-> NoRequest]
    /\ new_id = [t \in Threads |-> 0]
    /\ db0 = [t \in Threads |-> InitialDB]
    /\ resp = [t \in Threads |-> NoResponse]
    /\ p_pc = "idle"
    /\ nums = <<>>
    /\ idx = 0
    /\ p_out = Running
    /\ values = <<>>
    /\ cache = <<>>
    /\ c_pc = "idle"
    /\ c_call = NoCall
    /\ c_before = <<>>
    /\ c_ran = FALSE
    /\ c_out = Running
    /\ c_execs = [x \in ArgSets |-> 0]
    /\ c_first = [x \in ArgSets |-> NoneVal]
    /\ c_n = 0
    /\ ws_pc = "idle"
    /\ ws_data = ""
    /\ ws_recv = <<>>
    /\ ws_sent = <<>>
    /\ ws_closes = 0
    /\ ws_exc = None
    /\ st_pc = "idle"
    /\ st_i = 0
    /\ st_sleeps = 0
    /\ st_chunks = <<>>

Next ==
    \/ call_flaky
    \/ retry_for
    \/ retry_try
    \/ retry_sleep
    \/ retry_raise
    \/ timed_finally
    \/ Timer_init
    \/ Timer_enter
    \/ Timer_body
    \/ Timer_exit
    \/ demo_write
    \/ open_read_open
    \/ open_read_read
    \/ open_read_body
    \/ open_read_finally
    \/ safe_open_read

Spec == Init /\ [][Next]_vars

\* The web app: the file system and the script play no part; any worker thread
\* may take a step at any time.
InitApp ==
    /\ Init
    /\ \A p \in Paths : fs[p].state = "missing"

Step(t) ==
    \/ read_item_check(t)
    \/ read_item_return(t)
    \/ create_item_new_id(t)
    \/ create_item_store(t)
    \/ error_demo(t)
    \/ send_response(t)

NextApp == \E t \in Threads : Step(t)

SpecApp == InitApp /\ [][NextApp]_vars

\* The web app with the requests handled one after the other: a request is
\* taken only when no other request is being handled.
OthersIdle(t) == \A u \in Threads \ {t} : tpc[u] = "idle"

NextAppSeq ==
    \E t \in Threads :
        \/ OthersIdle(t) /\ read_item_check(t)
        \/ OthersIdle(t) /\ read_item_return(t)
        \/ OthersIdle(t) /\ create_item_new_id(t)
        \/ OthersIdle(t) /\ create_item_store(t)
        \/ OthersIdle(t) /\ error_demo(t)
        \/ OthersIdle(t) /\ send_response(t)

SpecAppSeq == InitApp /\ [][NextAppSeq]_vars

\* The pure functions: one call, its input drawn when it is made.
NextPure ==
    \/ first_even_call
    \/ first_even_for
    \/ builtin_stats

SpecPure == InitApp /\ [][NextPure]_vars

\* A function wrapped by simple_cache, called again and again.
NextCache ==
    \/ cache_lookup
    \/ cache_func

SpecCache == InitApp /\ [][NextCache]_vars

\* The coroutines of the app on one event loop: a websocket connection and a
\* streamed response, each advancing from await to await.
NextAsync ==
    \/ ws_accept
    \/ ws_receive
    \/ ws_send
    \/ ws_close
    \/ stream_numbers
    \/ number_stream_for
    \/ number_stream_sleep
    \/ number_stream_yield
    \/ stream_consumer

SpecAsync == InitApp /\ [][NextAsync]_vars

====
